---- MODULE Spec2Model ----
(***************************************************************************)
(* State-machine model of the two HTTP services of talk-genai-hr:          *)
(*   src/streaming-tts-service/app.py  (TTS, port 5053, threaded server)   *)
(*   src/vad-service/app.py            (VAD, port 5052, one request at a   *)
(*                                      time)                              *)
(* The two processes share nothing; Spec is the TTS process, VadSpec the   *)
(* VAD process, LiveSpec the TTS process with the timer's fairness.        *)
(*                                                                         *)
(* Calls into the pretrained models (tokenizer, model.generate, read_audio,*)
(* get_speech_timestamps, model(...)) are inputs of the handlers: their    *)
(* results, and whether they raise, are drawn with \E.                     *)
(***************************************************************************)
EXTENDS Integers, Sequences, FiniteSets, TLC

\* ------------------------------------------------------------------ bounds
\* longest text (in characters) of a synthesis request
MaxLen == 3
\* number of names uuid4 hands out in one run of the model
MaxFiles == 2
\* clock ticks per hour (the granularity of file ages and of the timer)
TicksPerHour == 2
\* the model's output is up to MaxGenChunks whole chunks plus a remainder
MaxGenChunks == 1
\* most speech segments the segmentation pass returns
MaxSeg == 2
\* temp files the VAD process creates in one run of the model
MaxTmp == 2
\* longest body (in bytes) of a detect_stream request
MaxBytes == 3

\* ------------------------------------------------------- program constants
SAMPLING_RATE == 24000
chunk_size == 4096
\* the VAD service's SAMPLING_RATE, and its THRESHOLD (0.5) in percent
VAD_SAMPLING_RATE == 16000
THRESHOLD == 50

VARIABLES
    phase,         \* "load": load_model() not yet run; "main": about to call
                   \* schedule_cleanup(); "serving": app.run() is serving
    MODEL_LOADED,  \* the module global set by load_model
    dir,           \* AUDIO_DIR: name -> age of the file in ticks, -1: no such file
    produced,      \* names text_to_speech has generated so far (history)
    untilSweep,    \* ticks until the armed Timer fires schedule_cleanup
    sweep,         \* what the last run of cleanup_old_files did
    resp,          \* the last response a TTS handler returned
    serve,         \* the serve_audio request in flight
    stream,        \* the tts_stream response being generated
    vad            \* the VAD process: its temp directory, the request in
                   \* flight and the last response

ttsVars == <<phase, MODEL_LOADED, dir, produced, untilSweep, sweep, resp, serve, stream>>
vars == <<phase, MODEL_LOADED, dir, produced, untilSweep, sweep, resp, serve, stream, vad>>

\* ------------------------------------------------------------ request data
\* characters of a text: a letter and the whitespace str.split() splits at
Chars == {"a", " "}

Texts == UNION {[1..n -> Chars] : n \in 0..MaxLen}

\* the JSON value under the key 'text': absent, null, or a string
TextValues ==
    {[kind |-> "absent", chars |-> <<>>], [kind |-> "null", chars |-> <<>>]}
        \cup {[kind |-> "str", chars |-> t] : t \in Texts}

\* what request.get_json() returns: a JSON object, or something with no .get
\* (None for a null body, a list for an array body)
Bodies ==
    {[kind |-> k, text |-> [kind |-> "absent", chars |-> <<>>]] : k \in {"null", "array"}}
        \cup {[kind |-> "object", text |-> t] : t \in TextValues}

\* data.get('text', ''): the default only replaces a missing key
GetText(body) ==
    IF body.text.kind = "absent" THEN [kind |-> "str", chars |-> <<>>] ELSE body.text

\* Truthy with a slip: the test "if not text.strip()"
TruthyStripped(text) ==
    text.kind = "str" /\ \E i \in 1..Len(text.chars) : text.chars[i] # " "

\* Python truth of the value: None and '' are false
Truthy(text) == text.kind = "str" /\ Len(text.chars) > 0

\* text.split(): the maximal runs of non-whitespace characters
RECURSIVE SplitFrom(_, _, _)
SplitFrom(s, i, cur) ==
    LET flush == IF cur = <<>> THEN <<>> ELSE <<cur>> IN
    IF i > Len(s) THEN flush
    ELSE IF s[i] = " " THEN flush \o SplitFrom(s, i + 1, <<>>)
    ELSE SplitFrom(s, i + 1, Append(cur, s[i]))

split(s) == SplitFrom(s, 1, <<>>)

\* FallbackSamples with a slip: len(text) in place of len(text.split())
FallbackSamplesPerChar(chars) == (Len(chars) * SAMPLING_RATE) \div 2

\* samples = int(len(text.split()) * 0.5 * SAMPLING_RATE); the product of the
\* word count with 0.5 and 24000 is exact in binary floating point
FallbackSamples(chars) == (Len(split(chars)) * SAMPLING_RATE) \div 2

\* duration_ms = int((len(audio_arr) / SAMPLING_RATE) * 1000)
DurationMs(len) == (len * 1000) \div SAMPLING_RATE

\* len(audio_arr) of a generation by the loaded model: whole chunks, one
\* sample more, one sample less (at least two samples: squeeze() keeps a 1-D array)
GenLens ==
    {n * chunk_size + d : n \in 0..MaxGenChunks, d \in {0, 1, chunk_size - 1}} \ {0, 1}

\* outcome of tokenizer(...) / model.generate(...): an array, or an exception
GenOutcomes ==
    {[ok |-> FALSE, len |-> 0]} \cup {[ok |-> TRUE, len |-> n] : n \in GenLens}

\* f"{uuid.uuid4()}.wav"
Uuid(i) == ToString(i) \o ".wav"

UuidNames == {Uuid(i) : i \in 1..MaxFiles}

\* os.path.join(AUDIO_DIR, filename) of the entries every directory has
DirEntries == {".", ".."}

\* the <filename> values of GET /audio/<filename> (one path segment)
ServeNames == UuidNames \cup DirEntries

\* os.listdir(AUDIO_DIR) restricted to os.path.isfile
Files == {f \in UuidNames : dir[f] >= 0}

\* os.path.exists(os.path.join(AUDIO_DIR, filename))
Exists(filename) == filename \in Files \/ filename \in DirEntries

Min(a, b) == IF a < b THEN a ELSE b

\* ---------------------------------------------------------------- responses
NoResp ==
    [ep |-> "none", body |-> [kind |-> "null", text |-> [kind |-> "absent", chars |-> <<>>]],
     name |-> "", status |-> 0, error |-> "", audio_file |-> "", duration |-> 0,
     samples |-> 0, model_used |-> "", raised |-> FALSE]

\* jsonify({'error': msg}), status   (raised: an exception reached the guard)
ErrorResp(ep, body, status, msg, raised) ==
    [NoResp EXCEPT !.ep = ep, !.body = body, !.status = status, !.error = msg,
                   !.raised = raised]

\* jsonify({'audio_file': ..., 'duration': ..., 'model_used': ...})
SynthResp(body, name, len) ==
    [NoResp EXCEPT !.ep = "tts", !.body = body, !.status = 200, !.name = name,
                   !.audio_file = "/audio/" \o name, !.duration = DurationMs(len),
                   !.samples = len,
                   !.model_used = IF MODEL_LOADED THEN "parler-tts" ELSE "fallback"]

NoStream ==
    [pc |-> "idle", chars |-> <<>>, status |-> 0, error |-> "", len |-> 0, i |-> 0,
     generated |-> FALSE, raised |-> FALSE, yielded |-> <<>>]

\* ---------------------------------------------------------------- VAD data
\* speech probabilities model(...).item() returns, in percent
Probs == {40, 90}

\* results of get_speech_timestamps: n segments [start, end) in samples,
\* ascending and disjoint
SegLists ==
    {[j \in 1..n |-> [start |-> VAD_SAMPLING_RATE * (j - 1) + off,
                      end |-> VAD_SAMPLING_RATE * j]] :
        n \in 0..MaxSeg, off \in {0, 8000}}

NoVadResp ==
    [ep |-> "none", status |-> 0, error |-> "", raised |-> FALSE, has_speech |-> FALSE,
     timestamps |-> <<>>, confidence |-> 0, num_segments |-> 0, reruns |-> 0,
     is_speech |-> FALSE, probability |-> 0]

\* jsonify({'error': msg}), status
VadError(ep, status, msg, raised) ==
    [NoVadResp EXCEPT !.ep = ep, !.status = status, !.error = msg, !.raised = raised]

NoVad ==
    [pc |-> "idle", tmp |-> {}, made |-> 0, tmp_path |-> 0, segs |-> <<>>,
     probs |-> <<>>, resp |-> NoVadResp]

\* ------------------------------------------------------------------ startup
Init ==
    /\ phase = "load"
    /\ MODEL_LOADED = FALSE
    /\ dir = [f \in UuidNames |-> -1]
    /\ produced = {}
    /\ untilSweep = 0
    /\ sweep = "none"
    /\ resp = NoResp
    /\ serve = [pc |-> "idle", name |-> ""]
    /\ stream = NoStream
    /\ vad = NoVad

\* load_model(): from_pretrained succeeds, or raises and is caught
load_model ==
    /\ phase = "load"
    /\ \E ok \in BOOLEAN : MODEL_LOADED' = ok
    /\ phase' = "main"
    /\ UNCHANGED <<dir, produced, untilSweep, sweep, resp, serve, stream, vad>>

\* ------------------------------------------------------- POST /api/tts
\* the branch taken when the text is non-empty: generation, torchaudio.save
\* into AUDIO_DIR under a fresh uuid4 name, and the JSON answer
Synthesize(body) ==
    IF MODEL_LOADED
    THEN \E gen \in GenOutcomes :
            IF ~gen.ok
            THEN \* tokenizer / model.generate raised before torchaudio.save
                 /\ resp' = ErrorResp("tts", body, 500, "GenerationError", TRUE)
                 /\ UNCHANGED <<dir, produced>>
            ELSE \E name \in UuidNames \ produced :
                    /\ dir' = [dir EXCEPT ![name] = 0]
                    /\ produced' = produced \cup {name}
                    /\ resp' = SynthResp(body, name, gen.len)
    ELSE \E name \in UuidNames \ produced :
            /\ dir' = [dir EXCEPT ![name] = 0]
            /\ produced' = produced \cup {name}
            /\ resp' = SynthResp(body, name, FallbackSamples(GetText(body).chars))

\* text_to_speech(): body is what request.get_json() returned
text_to_speech(body) ==
    /\ phase = "serving"
    /\ IF body.kind # "object"
       THEN \* data.get raises AttributeError: caught by the handler's guard
            /\ resp' = ErrorResp("tts", body, 500, "AttributeError", TRUE)
            /\ UNCHANGED <<dir, produced>>
       ELSE IF ~Truthy(GetText(body))
       THEN /\ resp' = ErrorResp("tts", body, 400, "No text provided", FALSE)
            /\ UNCHANGED <<dir, produced>>
       ELSE Synthesize(body)
    /\ UNCHANGED <<phase, MODEL_LOADED, untilSweep, sweep, serve, stream, vad>>

\* ------------------------------------------------ POST /api/tts_stream
\* Chunk with a slip: a slice that is not cut at the end of the array
ChunkUnclamped(i, len) == [start |-> i, stop |-> i + chunk_size]

\* audio_arr[i:i+chunk_size] as the pair of its bounds in audio_arr
Chunk(i, len) == [start |-> i, stop |-> Min(i + chunk_size, len)]

\* b'': a chunk of no samples
EmptyChunk == [start |-> 0, stop |-> 0]

\* text_to_speech_stream(): validates, then returns Response(generator) with
\* the default status 200; the generator body runs later, during the response
text_to_speech_stream(body) ==
    /\ phase = "serving"
    /\ stream.pc \in {"idle", "done"}
    /\ IF body.kind # "object"
       THEN stream' = [NoStream EXCEPT !.pc = "done", !.status = 500, !.raised = TRUE,
                                       !.error = "AttributeError"]
       ELSE IF ~Truthy(GetText(body))
       THEN stream' = [NoStream EXCEPT !.pc = "done", !.status = 400,
                                       !.error = "No text provided"]
       ELSE stream' = [NoStream EXCEPT !.pc = "open", !.status = 200,
                                       !.chars = GetText(body).chars]
    /\ UNCHANGED <<phase, MODEL_LOADED, dir, produced, untilSweep, sweep, resp, serve, vad>>

\* generate_audio_stream() up to the chunking loop: the whole generation
generate_audio_stream ==
    /\ stream.pc = "open"
    /\ IF MODEL_LOADED
       THEN \E gen \in GenOutcomes :
               IF gen.ok
               THEN stream' = [stream EXCEPT !.pc = "yield", !.len = gen.len,
                                             !.generated = TRUE]
               ELSE \* except Exception: print(...); yield b''
                    stream' = [stream EXCEPT !.pc = "done", !.raised = TRUE,
                                             !.yielded = <<EmptyChunk>>]
       ELSE stream' = [stream EXCEPT !.pc = "yield", !.generated = TRUE,
                                     !.len = FallbackSamples(stream.chars)]
    /\ UNCHANGED <<phase, MODEL_LOADED, dir, produced, untilSweep, sweep, resp, serve, vad>>

\* one iteration of: for i in range(0, len(audio_arr), chunk_size): yield ...
yield_chunk ==
    /\ stream.pc = "yield"
    /\ IF stream.i < stream.len
       THEN stream' = [stream EXCEPT !.yielded = Append(@, Chunk(stream.i, stream.len)),
                                     !.i = @ + chunk_size]
       ELSE stream' = [stream EXCEPT !.pc = "done"]
    /\ UNCHANGED <<phase, MODEL_LOADED, dir, produced, untilSweep, sweep, resp, serve, vad>>

\* ------------------------------------------------ GET /audio/<filename>
\* serve_audio() up to the test os.path.exists(audio_path)
serve_audio(filename) ==
    /\ phase = "serving"
    /\ serve.pc = "idle"
    /\ IF Exists(filename)
       THEN /\ serve' = [pc |-> "send", name |-> filename]
            /\ UNCHANGED resp
       ELSE /\ resp' = [ErrorResp("audio", NoResp.body, 404, "Audio file not found", FALSE)
                           EXCEPT !.name = filename]
            /\ UNCHANGED serve
    /\ UNCHANGED <<phase, MODEL_LOADED, dir, produced, untilSweep, sweep, stream, vad>>

\* send_file(audio_path): opens the path; a path that is gone or names a
\* directory raises (FileNotFoundError, IsADirectoryError), caught by the guard
send_file ==
    /\ serve.pc = "send"
    /\ IF serve.name \in Files
       THEN resp' = [NoResp EXCEPT !.ep = "audio", !.status = 200, !.name = serve.name,
                                   !.audio_file = serve.name]
       ELSE resp' = [ErrorResp("audio", NoResp.body, 500, "OSError", TRUE)
                        EXCEPT !.name = serve.name]
    /\ serve' = [pc |-> "idle", name |-> ""]
    /\ UNCHANGED <<phase, MODEL_LOADED, dir, produced, untilSweep, sweep, stream, vad>>

\* ------------------------------------------------------------ cleanup timer
\* OldFiles with a slip: file_age >= 3600
OldFilesInclusive == {f \in Files : dir[f] >= TicksPerHour}

\* file_age > 3600
OldFiles == {f \in Files : dir[f] > TicksPerHour}

\* cleanup_old_files(): removed is the set of files os.remove deleted; a run
\* that raises (error) is cut short by the guard and leaves a file behind
cleanup_old_files(error, removed) ==
    /\ removed \subseteq OldFiles
    /\ IF error THEN OldFiles # {} => removed # OldFiles ELSE removed = OldFiles
    /\ dir' = [f \in UuidNames |-> IF f \in removed THEN -1 ELSE dir[f]]
    /\ sweep' = IF error THEN "error" ELSE "ok"

\* schedule_cleanup(): called by __main__ before app.run, then by each Timer;
\* cleanup_old_files(), then Timer(3600, schedule_cleanup).start()
schedule_cleanup(error) ==
    /\ \/ phase = "main"
       \/ phase = "serving" /\ untilSweep = 0
    /\ \E removed \in SUBSET UuidNames : cleanup_old_files(error, removed)
    /\ untilSweep' = TicksPerHour
    /\ phase' = "serving"
    /\ UNCHANGED <<MODEL_LOADED, produced, resp, serve, stream, vad>>

\* the clock: files age (an age above the hour is kept as TicksPerHour + 1),
\* the armed timer counts down and fires at 0; a serve_audio request between
\* its test and its send takes less than a tick
Tick ==
    /\ phase = "serving"
    /\ untilSweep > 0
    /\ serve.pc = "idle"
    /\ untilSweep' = untilSweep - 1
    /\ dir' = [f \in UuidNames |->
                 IF dir[f] < 0 THEN -1 ELSE Min(dir[f] + 1, TicksPerHour + 1)]
    /\ UNCHANGED <<phase, MODEL_LOADED, produced, sweep, resp, serve, stream, vad>>

\* ------------------------------------------------------ POST /api/detect
\* 'file' not in request.files -> 400; else NamedTemporaryFile(delete=False,
\* suffix='.wav') creates the next temp file
detect_speech(hasFile) ==
    /\ vad.pc = "idle"
    /\ IF ~hasFile
       THEN vad' = [vad EXCEPT !.resp = VadError("detect", 400, "No file provided", FALSE)]
       ELSE /\ vad.made < MaxTmp
            /\ vad' = [vad EXCEPT !.pc = "save", !.made = @ + 1,
                                  !.tmp = @ \cup {vad.made + 1},
                                  !.tmp_path = 0, !.segs = <<>>, !.probs = <<>>]
    /\ UNCHANGED ttsVars

\* the finally clause: if os.path.exists(tmp_path): os.unlink(tmp_path)
Unlink(tmp, tmp_path) == tmp \ {tmp_path}

\* an exception inside the inner try: finally, then the handler's guard
VadFail(msg) ==
    vad' = [vad EXCEPT !.pc = "idle", !.tmp = Unlink(vad.tmp, vad.tmp_path),
                       !.resp = VadError("detect", 500, msg, TRUE)]

\* audio_file.save(tmp_file.name); tmp_path = tmp_file.name  (inside the with
\* block, before the inner try); a raise leaves through the handler's guard
save_upload(ok) ==
    /\ vad.pc = "save"
    /\ IF ok
       THEN vad' = [vad EXCEPT !.pc = "read", !.tmp_path = vad.made]
       ELSE vad' = [vad EXCEPT !.pc = "idle",
                               !.resp = VadError("detect", 500, "SaveError", TRUE)]
    /\ UNCHANGED ttsVars

\* wav = read_audio(tmp_path, sampling_rate=SAMPLING_RATE)
read_audio(ok) ==
    /\ vad.pc = "read"
    /\ IF ok THEN vad' = [vad EXCEPT !.pc = "segment"] ELSE VadFail("DecodeError")
    /\ UNCHANGED ttsVars

\* speech_timestamps = get_speech_timestamps(wav, model, ...)
get_speech_timestamps(ok, segs) ==
    /\ vad.pc = "segment"
    /\ IF ok THEN vad' = [vad EXCEPT !.pc = "confidence", !.segs = segs]
       ELSE VadFail("ModelError")
    /\ UNCHANGED ttsVars

\* HasSpeech with a slip: len(speech_timestamps) >= 0
HasSpeechAlways(segs) == Len(segs) >= 0

\* has_speech = len(speech_timestamps) > 0
HasSpeech(segs) == Len(segs) > 0

\* one pass of: for segment in speech_timestamps: model(segment_audio, ...)
segment_confidence(ok, prob) ==
    /\ vad.pc = "confidence"
    /\ HasSpeech(vad.segs)
    /\ Len(vad.probs) < Len(vad.segs)
    /\ IF ok THEN vad' = [vad EXCEPT !.probs = Append(@, prob)] ELSE VadFail("ModelError")
    /\ UNCHANGED ttsVars

RECURSIVE Sum(_)
Sum(q) == IF q = <<>> THEN 0 ELSE Head(q) + Sum(Tail(q))

\* np.mean(speech_probs) if speech_probs else 0.0   (percent)
AvgConfidence(probs) == IF probs # <<>> THEN Sum(probs) \div Len(probs) ELSE 0

\* ts / SAMPLING_RATE for both ends, in thousandths of a second
TimestampsSeconds(segs) ==
    [j \in 1..Len(segs) |->
        [start |-> (segs[j].start * 1000) \div VAD_SAMPLING_RATE,
         end |-> (segs[j].end * 1000) \div VAD_SAMPLING_RATE]]

\* the JSON answer of detect_speech, then the finally clause
detect_respond ==
    /\ vad.pc = "confidence"
    /\ HasSpeech(vad.segs) => Len(vad.probs) = Len(vad.segs)
    /\ vad' = [vad EXCEPT
                 !.pc = "idle",
                 !.tmp = Unlink(vad.tmp, vad.tmp_path),
                 !.resp = [NoVadResp EXCEPT
                             !.ep = "detect", !.status = 200,
                             !.has_speech = HasSpeech(vad.segs),
                             !.timestamps = TimestampsSeconds(vad.segs),
                             !.confidence = AvgConfidence(vad.probs),
                             !.num_segments = Len(vad.segs),
                             !.reruns = Len(vad.probs)]]
    /\ UNCHANGED ttsVars

\* ------------------------------------------------ POST /api/detect_stream
\* detect_stream(): np.frombuffer(audio_bytes, dtype=np.int16) raises on an
\* odd number of bytes; model(wav, SAMPLING_RATE) returns prob or raises
detect_stream(nbytes, ok, prob) ==
    /\ vad.pc = "idle"
    /\ IF nbytes % 2 # 0
       THEN vad' = [vad EXCEPT !.resp = VadError("detect_stream", 500, "ValueError", TRUE)]
       ELSE IF ~ok
       THEN vad' = [vad EXCEPT !.resp = VadError("detect_stream", 500, "ModelError", TRUE)]
       ELSE vad' = [vad EXCEPT !.resp = [NoVadResp EXCEPT
                                           !.ep = "detect_stream", !.status = 200,
                                           !.is_speech = prob > THRESHOLD,
                                           !.probability = prob]]
    /\ UNCHANGED ttsVars

\* the VAD process (the Flask server handles one request at a time)
VadNext ==
    \/ \E hasFile \in BOOLEAN : detect_speech(hasFile)
    \/ \E ok \in BOOLEAN : save_upload(ok)
    \/ \E ok \in BOOLEAN : read_audio(ok)
    \/ \E ok \in BOOLEAN, segs \in SegLists : get_speech_timestamps(ok, segs)
    \/ \E ok \in BOOLEAN, prob \in Probs : segment_confidence(ok, prob)
    \/ detect_respond
    \/ \E nbytes \in 0..MaxBytes, ok \in BOOLEAN, prob \in Probs :
          detect_stream(nbytes, ok, prob)

VadSpec == Init /\ [][VadNext]_vars

\* POST /api/tts over every request body, from process start
Next ==
    \/ load_model
    \/ \E error \in BOOLEAN : schedule_cleanup(error)
    \/ \E body \in Bodies : text_to_speech(body)

Spec == Init /\ [][Next]_vars

\* request bodies of the file side: one of each kind, texts of at most one
\* character (the files and the timer do not depend on the text)
FileBodies == {b \in Bodies : Len(b.text.chars) <= 1}

\* the file side of the TTS process: synthesize, serve, the clock, the sweep
FileNext ==
    \/ load_model
    \/ \E body \in FileBodies : text_to_speech(body)
    \/ \E filename \in ServeNames : serve_audio(filename)
    \/ send_file
    \/ \E error \in BOOLEAN : schedule_cleanup(error)
    \/ Tick

FileSpec == Init /\ [][FileNext]_vars

\* the streaming side of the TTS process; it reads MODEL_LOADED and touches
\* neither AUDIO_DIR nor the timer
StreamNext ==
    \/ load_model
    \/ \E error \in BOOLEAN : schedule_cleanup(error)
    \/ \E body \in Bodies : text_to_speech_stream(body)
    \/ generate_audio_stream
    \/ yield_chunk

StreamSpec == Init /\ [][StreamNext]_vars

\* the timer thread beside the handler that fills AUDIO_DIR
SweepNext ==
    \/ load_model
    \/ \E body \in FileBodies : text_to_speech(body)
    \/ \E error \in BOOLEAN : schedule_cleanup(error)
    \/ Tick

\* ... with its scheduling: the process starts, the clock advances, an armed
\* Timer fires, and a sweep does not fail at every run for ever
LiveSpec ==
    /\ Init /\ [][SweepNext]_vars
    /\ WF_vars(load_model)
    /\ WF_vars(Tick)
    /\ WF_vars(\E error \in BOOLEAN : schedule_cleanup(error))
    /\ SF_vars(schedule_cleanup(FALSE))

\* ------------------------------------------------------------------ claims
\* the text of a request is empty or absent
TextEmptyOrAbsent(body) ==
    \/ body.kind # "object"
    \/ body.text.kind \in {"absent", "null"}
    \/ body.text.chars = <<>>

\* the number of whitespace-separated words, counted by the word starts
Words(chars) ==
    Cardinality({i \in 1..Len(chars) :
                    chars[i] # " " /\ (i = 1 \/ chars[i - 1] = " ")})

\* C1: a POST /api/tts whose text is empty or absent gets status 400 and
\* creates no file in the audio directory, whether or not the model is loaded.
C1_EmptyTextIs400 ==
    (resp.ep = "tts" /\ TextEmptyOrAbsent(resp.body))
        => (resp.status = 400 /\ resp.name = "")

C3_TempFileAlwaysDeleted == vad.pc = "idle" => vad.tmp = {}

\* C4: a GET /audio/<name> with a name no synthesize request produced
\* returns 404, and only files synthesize generated are served.
C4_UnknownNameIs404 ==
    resp.ep = "audio" =>
        /\ resp.name \notin produced => resp.status = 404
        /\ resp.status = 200 => resp.name \in produced

\* C5: an exception raised while processing synthesize, synthesize-stream,
\* detect or detect-stream gives status 500 with the exception message in
\* the error body, never a success status.
C5_ExceptionIs500 ==
    /\ resp.raised => (resp.status = 500 /\ resp.error # "")
    /\ stream.raised => (stream.status = 500 /\ stream.error # "")
    /\ vad.resp.raised => (vad.resp.status = 500 /\ vad.resp.error # "")

\* C6: a text synthesized by the fallback generator reports a duration of
\* 500 ms per whitespace-separated word, from words x 0.5 x 24000 samples.
C6_FallbackDuration ==
    (resp.ep = "tts" /\ resp.status = 200 /\ resp.model_used = "fallback")
        => /\ resp.duration = 500 * Words(resp.body.text.chars)
           /\ 2 * resp.samples = Words(resp.body.text.chars) * SAMPLING_RATE

C6_Witness ==
    /\ resp.ep = "tts" /\ resp.status = 200 /\ resp.model_used = "fallback"
    /\ Words(resp.body.text.chars) = 2
    /\ resp.duration = 1000

\* C7: when segmentation finds no segment the answer has has_speech false,
\* no timestamps, confidence 0 and num_segments 0, and the model was not
\* rerun; in every answer has_speech holds exactly when num_segments > 0
\* and there are num_segments timestamps.
C7_SilenceResponse ==
    (vad.resp.ep = "detect" /\ vad.resp.status = 200) =>
        /\ vad.resp.num_segments = 0 =>
              /\ vad.resp.has_speech = FALSE
              /\ vad.resp.timestamps = <<>>
              /\ vad.resp.confidence = 0
              /\ vad.resp.reruns = 0
        /\ vad.resp.has_speech <=> vad.resp.num_segments > 0
        /\ Len(vad.resp.timestamps) = vad.resp.num_segments

C7_Witness ==
    /\ vad.resp.ep = "detect" /\ vad.resp.status = 200
    /\ vad.resp.num_segments = 0
    /\ vad.made = 2

C9_ChunksAreConsecutiveSlices ==
    LET Y == stream.yielded
        n == Len(Y)
    IN  /\ (\E k \in 1..n : Y[k].stop > Y[k].start) => stream.generated
        /\ stream.generated =>
              /\ \A k \in 1..n :
                    /\ Y[k].start = (k - 1) * chunk_size
                    /\ Y[k].stop - Y[k].start \in 1..chunk_size
                    /\ Y[k].stop <= stream.len
                    /\ k < n => (Y[k].stop - Y[k].start = chunk_size
                                   /\ Y[k + 1].start = Y[k].stop)
              /\ stream.pc = "done" =>
                    IF n = 0 THEN stream.len = 0 ELSE Y[n].stop = stream.len

C9_Witness ==
    /\ stream.pc = "done" /\ stream.generated
    /\ Len(stream.yielded) >= 2
    /\ stream.yielded[Len(stream.yielded)].stop
          - stream.yielded[Len(stream.yielded)].start < chunk_size

\* C10: a GET /audio/<name> for a generated file ends with 200 and the file
\* or with 404, however the sweep on the timer thread interleaves with it.
C10_ServeNeverErrors ==
    (resp.ep = "audio" /\ resp.name \in produced) =>
        \/ resp.status = 200 /\ resp.audio_file = resp.name
        \/ resp.status = 404 /\ resp.error = "Audio file not found"

====
